---- MODULE Spec2Model ----
(***************************************************************************)
(* Execution core of datafusion-rs (src/exec.rs): the physical operators   *)
(* CsvRelation, FilterRelation, ProjectRelation and LimitRelation, the     *)
(* plan compiler ExecutionContext::create_execution_plan, the expression   *)
(* evaluator ExecutionContext::evaluate, and the DataFrame handle DF.      *)
(*                                                                         *)
(* Conventions.  Rust indexes from 0, TLA+ sequences from 1: values[i] of  *)
(* the source is values[i + 1] here.  A Result is a record with a tag      *)
(* "Ok" or "Err"; a panic (panic!, unwrap on Err, assert_eq!, index out of *)
(* range, unimplemented!) is the tag "Panic"; Option::None is the tag      *)
(* "None".  Texts are sequences of tokens, so that a formatted text        *)
(* (format!) is the sequence of its pieces.                                *)
(***************************************************************************)
EXTENDS Integers, Sequences, FiniteSets, TLC

VARIABLES
    heap,   \* the boxed ExecutionContext values; heap[1] is the caller's context
    df,     \* the current DF handle: a context box and a logical plan
    fs,     \* the file system: path -> [exists, recs]
    pc,     \* position of the running operation
    rel,    \* the compiled operator tree (Box<SimpleRelation>)
    it,     \* the iterator returned by rel.scan(ctx)
    out,    \* the items the iterator has yielded so far
    res,    \* the value the last call returned
    call    \* the arguments of an evaluate call

vars == <<heap, df, fs, pc, rel, it, out, res, call>>

(***************************************************************************)
(* Bounds                                                                  *)
(***************************************************************************)
MaxRecords == 4      \* records in a source file
MaxPulls == 5        \* next() calls a consumer makes on one iterator
MaxLimit == 3        \* largest limit of a Limit node
MaxDepth == 2        \* select/filter calls chained on one handle
MaxHandles == 2      \* handles obtained from one context

(***************************************************************************)
(* Values, rows, schemas, expressions                                      *)
(***************************************************************************)
UnsignedLong(n) == [t |-> "UnsignedLong", v |-> n]
Double(n) == [t |-> "Double", v |-> n]          \* v counts hundredths
String(s) == [t |-> "String", v |-> s]          \* v is a sequence of tokens
Boolean(b) == [t |-> "Boolean", v |-> b]
ComplexValue(vs) == [t |-> "ComplexValue", v |-> vs]

Row(values) == [values |-> values]

Field(name, data_type) == [name |-> name, data_type |-> data_type, nullable |-> FALSE]
Schema(columns) == [columns |-> columns]

TupleValue(i) == [e |-> "TupleValue", i |-> i]
Literal(value) == [e |-> "Literal", value |-> value]
BinaryExpr(left, op, right) == [e |-> "BinaryExpr", left |-> left, op |-> op, right |-> right]
ScalarFunction(name, args) == [e |-> "ScalarFunction", name |-> name, args |-> args]

Operator == {"Eq", "NotEq", "Lt", "LtEq", "Gt", "GtEq"}

\* Result values
Ok(x) == [tag |-> "Ok", value |-> x]
Err(kind, msg) == [tag |-> "Err", err |-> [kind |-> kind, msg |-> msg]]
PanicR == [tag |-> "Panic"]
None == [tag |-> "None"]

\* ExecutionError variants
IoError(path) == Err("IoError", <<"No such file", path>>)
CsvError == Err("CsvError", <<"invalid record">>)
ParserErr == Err("ParserError", <<"parse">>)
Custom(msg) == Err("Custom", msg)

(***************************************************************************)
(* Text conversions                                                        *)
(***************************************************************************)
\* str::to_lowercase on the function names the model uses
to_lowercase(s) ==
    CASE s = "SQRT" -> "sqrt"
      [] s = "Sqrt" -> "sqrt"
      [] s = "ST_Point" -> "st_point"
      [] s = "ST_AsText" -> "st_astext"
      [] OTHER -> s

\* str::parse::<u64> on the field texts the model uses
parse_u64(s) ==
    CASE s = "1" -> Ok(1)
      [] s = "2" -> Ok(2)
      [] s = "4" -> Ok(4)
      [] OTHER -> [tag |-> "Err"]

\* str::parse::<f64>, in hundredths
parse_f64(s) ==
    CASE s = "1" -> Ok(100)
      [] s = "2" -> Ok(200)
      [] s = "4" -> Ok(400)
      [] s = "1.5" -> Ok(150)
      [] OTHER -> [tag |-> "Err"]

\* lexical rank of the one-token texts the model uses
TextRank(s) ==
    CASE s = <<"1">> -> 1
      [] s = <<"1.5">> -> 2
      [] s = <<"2">> -> 3
      [] s = <<"4">> -> 4
      [] s = <<"x">> -> 5
      [] OTHER -> 6

\* declaration order of the Value variants
VariantRank(t) ==
    CASE t = "UnsignedLong" -> 1
      [] t = "String" -> 2
      [] t = "Boolean" -> 3
      [] t = "Double" -> 4
      [] OTHER -> 5

\* Value: PartialEq
ValueEq(a, b) == a.t = b.t /\ a.v = b.v

\* Value: PartialOrd
ValueLt(a, b) ==
    IF a.t # b.t THEN VariantRank(a.t) < VariantRank(b.t)
    ELSE CASE a.t \in {"UnsignedLong", "Double"} -> a.v < b.v
           [] a.t = "String" -> TextRank(a.v) < TextRank(b.v)
           [] a.t = "Boolean" -> (~a.v) /\ b.v
           [] OTHER -> FALSE

(***************************************************************************)
(* Scalar functions                                                        *)
(***************************************************************************)
\* f64::sqrt on the arguments the model uses, in hundredths
sqrt(n) ==
    CASE n = 100 -> 100
      [] n = 150 -> 122
      [] n = 200 -> 141
      [] n = 400 -> 200
      [] OTHER -> 0

\* ScalarFunction::execute of SqrtFunction, STPointFunc and STAsText
execute(func, args) ==
    CASE func = "sqrt" ->
            IF Len(args) >= 1 /\ args[1].t = "Double" THEN Ok(Double(sqrt(args[1].v)))
            ELSE IF Len(args) >= 1 /\ args[1].t = "UnsignedLong"
                 THEN Ok(Double(sqrt(args[1].v * 100)))
                 ELSE Err("Custom", <<"Unsupported arg type for sqrt">>)
      [] func = "st_point" ->
            IF Len(args) = 2 /\ args[1].t = "Double" /\ args[2].t = "Double"
            THEN Ok(ComplexValue(<<args[1], args[2]>>))
            ELSE Err("Custom", <<"Unsupported type for ST_Point">>)
      [] func = "st_astext" ->
            IF Len(args) = 1 /\ args[1].t = "ComplexValue"
            THEN Ok(String(<<"POINT", args[1].v[1].v, args[1].v[2].v>>))
            ELSE Err("Custom", <<"Unsupported type for ST_AsText">>)
      [] OTHER -> Err("Custom", <<"no such function">>)

\* ExecutionContext::load_function_impl
load_function_impl(function_name) ==
    LET n == to_lowercase(function_name) IN
    CASE n = "sqrt" -> Ok("sqrt")
      [] n = "st_point" -> Ok("st_point")
      [] n = "st_astext" -> Ok("st_astext")
      [] OTHER -> Custom(<<"Unknown function ", function_name>>)

(***************************************************************************)
(* ExecutionContext::evaluate                                              *)
(***************************************************************************)
ApplyOp(op, l, r) ==
    CASE op = "Eq" -> ValueEq(l, r)
      [] op = "NotEq" -> ~ValueEq(l, r)
      [] op = "Lt" -> ValueLt(l, r)
      [] op = "LtEq" -> ValueLt(l, r) \/ ValueEq(l, r)
      [] op = "Gt" -> ValueLt(r, l)
      [] op = "GtEq" -> ValueLt(r, l) \/ ValueEq(l, r)

RECURSIVE evaluate(_, _, _)
RECURSIVE EvalArgs(_, _, _, _)

\* args.iter().map(|a| self.evaluate(..)).collect::<Result<Vec<Value>, _>>():
\* left to right, stopping at the first Err
EvalArgs(tuple, tt, args, k) ==
    IF k > Len(args) THEN Ok(<<>>)
    ELSE LET a == evaluate(tuple, tt, args[k]) IN
         IF a.tag # "Ok" THEN a
         ELSE LET rest == EvalArgs(tuple, tt, args, k + 1) IN
              IF rest.tag # "Ok" THEN rest ELSE Ok(<<a.value>> \o rest.value)

evaluate(tuple, tt, rex) ==
    CASE rex.e = "BinaryExpr" ->
            LET left_value == evaluate(tuple, tt, rex.left) IN
            IF left_value.tag # "Ok" THEN left_value
            ELSE LET right_value == evaluate(tuple, tt, rex.right) IN
                 IF right_value.tag # "Ok" THEN right_value
                 ELSE Ok(Boolean(ApplyOp(rex.op, left_value.value, right_value.value)))
      [] rex.e = "TupleValue" ->
            IF rex.i < Len(tuple.values) THEN Ok(tuple.values[rex.i + 1]) ELSE PanicR
      [] rex.e = "Literal" -> Ok(rex.value)
      [] rex.e = "ScalarFunction" ->
            LET arg_values == EvalArgs(tuple, tt, rex.args, 1) IN
            IF arg_values.tag # "Ok" THEN arg_values
            ELSE LET func == load_function_impl(rex.name) IN
                 IF func.tag # "Ok" THEN func
                 ELSE LET r == execute(func.value, arg_values.value) IN
                      IF r.tag = "Ok" THEN r ELSE Custom(<<"TBD">>)

(***************************************************************************)
(* Logical plans (LogicalPlan) and physical operators                      *)
(***************************************************************************)
EmptyRelation == [kind |-> "EmptyRelation"]
TableScan(table_name, schema) ==
    [kind |-> "TableScan", table_name |-> table_name, schema |-> schema]
CsvFile(filename, schema) == [kind |-> "CsvFile", filename |-> filename, schema |-> schema]
Selection(expr, input, schema) ==
    [kind |-> "Selection", expr |-> expr, input |-> input, schema |-> schema]
Projection(expr, input, schema) ==
    [kind |-> "Projection", expr |-> expr, input |-> input, schema |-> schema]
Limit(limit, input, schema) ==
    [kind |-> "Limit", limit |-> limit, input |-> input, schema |-> schema]

\* LogicalPlan::schema: the schema the node carries
plan_schema(plan) == IF plan.kind = "EmptyRelation" THEN Schema(<<>>) ELSE plan.schema

CsvRelation(file, schema) == [kind |-> "Csv", file |-> file, schema |-> schema]
FilterRelation(schema, input, expr) ==
    [kind |-> "Filter", schema |-> schema, input |-> input, expr |-> expr]
ProjectRelation(schema, input, expr) ==
    [kind |-> "Project", schema |-> schema, input |-> input, expr |-> expr]
\* LimitRelation with a limit one too large
LimitRelation_OffByOne(schema, input, limit) ==
    [kind |-> "Limit", schema |-> schema, input |-> input, limit |-> limit + 1]

LimitRelation(schema, input, limit) ==
    [kind |-> "Limit", schema |-> schema, input |-> input, limit |-> limit]

NoRel == [kind |-> "NoRel"]
NoIt == [calls |-> 0]

(***************************************************************************)
(* Files                                                                   *)
(***************************************************************************)
\* a source record: its fields, or a record the csv reader rejects
Record(fields) == [bad |-> FALSE, fields |-> fields]
BadRecord == [bad |-> TRUE, fields |-> <<>>]

NoFile == [exists |-> FALSE, recs |-> <<>>]
FileOf(recs) == [exists |-> TRUE, recs |-> recs]

\* format!("test/data/{}.csv", table_name)
TablePath(table_name) == <<"test/data/", table_name, ".csv">>

\* File::open
FileOpen(f, path) ==
    IF path \in DOMAIN f /\ f[path].exists THEN Ok(path) ELSE IoError(path)

\* File::create: creates the file or truncates it
FileCreate(f, path) == [f EXCEPT ![path] = FileOf(<<>>)]

(***************************************************************************)
(* CsvRelation                                                             *)
(***************************************************************************)
\* csv::Reader::from_reader builds the reader with the csv crate's default
\* configuration, in which the first record of the input is a header row
\* that into_records() does not yield
has_headers == TRUE

\* CsvRelation::open
CsvRelation_open(file, schema) == Ok(CsvRelation(file, schema))

\* CsvRelation::create_tuple
create_tuple(schema, r) ==
    IF Len(schema.columns) # Len(r) THEN PanicR
    ELSE LET cell(k) ==
                 LET c == schema.columns[k] IN
                 CASE c.data_type = "UnsignedLong" ->
                        LET p == parse_u64(r[k]) IN
                        IF p.tag = "Ok" THEN Ok(UnsignedLong(p.value)) ELSE PanicR
                   [] c.data_type = "String" -> Ok(String(<<r[k]>>))
                   [] c.data_type = "Double" ->
                        LET p == parse_f64(r[k]) IN
                        IF p.tag = "Ok" THEN Ok(Double(p.value)) ELSE PanicR
                   [] OTHER -> PanicR
         IN IF \E k \in 1..Len(r) : cell(k).tag = "Panic" THEN PanicR
            ELSE Ok(Row([k \in 1..Len(r) |-> cell(k).value]))

\* next() of the iterator CsvRelation::scan returns; pos counts the records
\* the reader has consumed
CsvNext(r, i, f) ==
    LET recs == f[r.file].recs
        start == IF i.pos = 0 /\ has_headers /\ Len(recs) > 0 THEN 1 ELSE i.pos
    IN IF start >= Len(recs)
       THEN [item |-> None, it |-> [pos |-> Len(recs), calls |-> i.calls + 1]]
       ELSE [item |-> IF recs[start + 1].bad THEN CsvError
                      ELSE create_tuple(r.schema, recs[start + 1].fields),
             it |-> [pos |-> start + 1, calls |-> i.calls + 1]]

(***************************************************************************)
(* FilterRelation, ProjectRelation, LimitRelation                          *)
(***************************************************************************)
\* FilterPredicate with the error arm dropping the item
FilterPredicate_DropsErrors(r, t) ==
    IF t.tag = "Ok"
    THEN LET b == evaluate(t.value, r.schema, r.expr) IN
         IF b.tag = "Ok" /\ b.value.t = "Boolean" THEN Ok(b.value.v) ELSE PanicR
    ELSE Ok(FALSE)

\* the closure FilterRelation::scan passes to filter()
FilterPredicate(r, t) ==
    IF t.tag = "Ok"
    THEN LET b == evaluate(t.value, r.schema, r.expr) IN
         IF b.tag = "Ok" /\ b.value.t = "Boolean" THEN Ok(b.value.v) ELSE PanicR
    ELSE Ok(TRUE)

\* ProjectMap with the column references counted from the last column
ProjectMap_Reversed(r, t) ==
    IF t.tag = "Ok"
    THEN LET tuple == t.value
             cell(k) ==
                 LET e == r.expr[k] IN
                 IF e.e = "TupleValue"
                 THEN IF e.i < Len(tuple.values)
                      THEN Ok(tuple.values[Len(tuple.values) - e.i]) ELSE PanicR
                 ELSE LET v == evaluate(tuple, r.schema, e) IN
                      IF v.tag = "Ok" THEN v ELSE PanicR
         IN IF \E k \in 1..Len(r.expr) : cell(k).tag = "Panic" THEN PanicR
            ELSE Ok(Row([k \in 1..Len(r.expr) |-> cell(k).value]))
    ELSE t

\* the closure ProjectRelation::scan passes to map()
ProjectMap(r, t) ==
    IF t.tag = "Ok"
    THEN LET tuple == t.value
             cell(k) ==
                 LET e == r.expr[k] IN
                 IF e.e = "TupleValue"
                 THEN IF e.i < Len(tuple.values) THEN Ok(tuple.values[e.i + 1]) ELSE PanicR
                 ELSE LET v == evaluate(tuple, r.schema, e) IN
                      IF v.tag = "Ok" THEN v ELSE PanicR
         IN IF \E k \in 1..Len(r.expr) : cell(k).tag = "Panic" THEN PanicR
            ELSE Ok(Row([k \in 1..Len(r.expr) |-> cell(k).value]))
    ELSE t

\* TakeNext with the counter tested after the input is pulled
TakeNext_PullsFirst(n, inner) ==
    IF n # 0 THEN [n |-> n - 1, pull |-> TRUE] ELSE [n |-> 0, pull |-> TRUE]

\* Take::next: the counter is tested before the input is pulled
TakeNext(n, inner) ==
    IF n # 0 THEN [n |-> n - 1, pull |-> TRUE] ELSE [n |-> 0, pull |-> FALSE]

RECURSIVE scan(_)
\* SimpleRelation::scan: the iterator before its first next()
scan(r) ==
    CASE r.kind = "Csv" -> [pos |-> 0, calls |-> 0]
      [] r.kind = "Filter" -> [input |-> scan(r.input), calls |-> 0]
      [] r.kind = "Project" -> [input |-> scan(r.input), calls |-> 0]
      [] r.kind = "Limit" -> [input |-> scan(r.input), n |-> r.limit, calls |-> 0]

RECURSIVE next(_, _, _)
RECURSIVE FilterNext(_, _, _)

\* Filter::next: pulls the input until an item passes or the input ends
FilterNext(r, inner, f) ==
    LET n == next(r.input, inner, f) IN
    IF n.item.tag \in {"None", "Panic"} THEN n
    ELSE LET keep == FilterPredicate(r, n.item) IN
         IF keep.tag = "Panic" THEN [item |-> PanicR, it |-> n.it]
         ELSE IF keep.value THEN n
         ELSE FilterNext(r, n.it, f)

\* Iterator::next of the iterator r.scan(ctx) returned, in state i
next(r, i, f) ==
    CASE r.kind = "Csv" -> CsvNext(r, i, f)
      [] r.kind = "Filter" ->
            LET n == FilterNext(r, i.input, f) IN
            [item |-> n.item, it |-> [input |-> n.it, calls |-> i.calls + 1]]
      [] r.kind = "Project" ->
            LET n == next(r.input, i.input, f) IN
            [item |-> IF n.item.tag \in {"None", "Panic"} THEN n.item
                      ELSE ProjectMap(r, n.item),
             it |-> [input |-> n.it, calls |-> i.calls + 1]]
      [] r.kind = "Limit" ->
            LET t == TakeNext(i.n, i.input) IN
            IF t.pull
            THEN LET n == next(r.input, i.input, f) IN
                 [item |-> n.item,
                  it |-> [input |-> n.it, n |-> t.n, calls |-> i.calls + 1]]
            ELSE [item |-> None, it |-> [i EXCEPT !.calls = i.calls + 1]]

(***************************************************************************)
(* ExecutionContext::create_execution_plan                                 *)
(***************************************************************************)
\* the Field a projection expression gets in the ProjectRelation's schema
ProjectColumn(e, input_schema) ==
    CASE e.e = "TupleValue" ->
            IF e.i < Len(input_schema.columns) THEN Ok(input_schema.columns[e.i + 1])
            ELSE PanicR
      [] e.e = "ScalarFunction" ->
            Ok([name |-> e.name, data_type |-> "Double", nullable |-> TRUE])
      [] OTHER -> PanicR

RECURSIVE create_execution_plan(_, _)
create_execution_plan(plan, f) ==
    CASE plan.kind = "EmptyRelation" -> PanicR
      [] plan.kind = "TableScan" ->
            LET file == FileOpen(f, TablePath(plan.table_name)) IN
            IF file.tag # "Ok" THEN file ELSE CsvRelation_open(file.value, plan.schema)
      [] plan.kind = "CsvFile" ->
            LET file == FileOpen(f, plan.filename) IN
            IF file.tag # "Ok" THEN file ELSE CsvRelation_open(file.value, plan.schema)
      [] plan.kind = "Selection" ->
            LET input_rel == create_execution_plan(plan.input, f) IN
            IF input_rel.tag # "Ok" THEN input_rel
            ELSE Ok(FilterRelation(plan.schema, input_rel.value, plan.expr))
      [] plan.kind = "Projection" ->
            LET input_rel == create_execution_plan(plan.input, f) IN
            IF input_rel.tag # "Ok" THEN input_rel
            ELSE LET input_schema == input_rel.value.schema
                     col(k) == ProjectColumn(plan.expr[k], input_schema)
                 IN IF \E k \in 1..Len(plan.expr) : col(k).tag = "Panic" THEN PanicR
                    ELSE Ok(ProjectRelation(
                             Schema([k \in 1..Len(plan.expr) |-> col(k).value]),
                             input_rel.value, plan.expr))
      [] plan.kind = "Limit" ->
            LET input_rel == create_execution_plan(plan.input, f) IN
            IF input_rel.tag # "Ok" THEN input_rel
            ELSE Ok(LimitRelation(plan.schema, input_rel.value, plan.limit))

(***************************************************************************)
(* ExecutionContext and DF                                                 *)
(***************************************************************************)
\* ExecutionContext::new
ExecutionContext_new == [schemas |-> <<>>, functions |-> <<>>]

\* HashMap::insert
Insert(map, key, value) == (key :> value) @@ map

\* the plan DF::select builds
select_plan(plan, expr) == Projection(expr, plan, plan_schema(plan))

\* the plan DF::filter builds
filter_plan(plan, expr) == Selection(expr, plan, plan_schema(plan))

\* the plan ExecutionContext::load builds
load_plan(filename, schema) == CsvFile(filename, schema)

NoDF == [ctx |-> 0, plan |-> [kind |-> "NoPlan"]]
NoCall == [rex |-> [e |-> "NoExpr"]]

\* snapshot without the clone: the handle refers to the context it came from
snapshot_Shared(h, id) == [heap |-> h, id |-> id]

\* Box::new(self.clone()): a new box holding a copy of the context in box id
snapshot(h, id) == [heap |-> Append(h, h[id]), id |-> Len(h) + 1]

\* ScalarFunction::name, args and return_type of the three functions
FunctionMeta(func) ==
    CASE func = "sqrt" ->
            [name |-> "sqrt", args |-> <<"Double">>, return_type |-> "Double"]
      [] func = "st_point" ->
            [name |-> "ST_Point", args |-> <<"Double", "Double">>,
             return_type |-> "ComplexType"]
      [] OTHER ->
            [name |-> "ST_AsText", args |-> <<"ComplexType">>, return_type |-> "String"]

\* ExecutionContext::define_schema, on the context in box 1
define_schema(h, name, schema) ==
    [h EXCEPT ![1].schemas = Insert(@, name, schema)]

\* ExecutionContext::define_function
define_function(h, func) ==
    LET fm == FunctionMeta(func) IN
    [h EXCEPT ![1].functions = Insert(@, to_lowercase(fm.name), fm)]

\* ExecutionContext::register_table
register_table(h, name, schema) ==
    [h EXCEPT ![1].schemas = Insert(@, name, schema)]

\* Parser::parse_sql and SqlToRel::sql_to_rel on a query text q, which is
\* given by what it says: whether it parses, its FROM table ("" when it has
\* none) and its LIMIT (-1 when it has none)
sql_to_rel(q, schemas) ==
    IF ~q.parses THEN ParserErr
    ELSE IF q.from = "" THEN Ok(EmptyRelation)
    ELSE IF q.from \notin DOMAIN schemas
         THEN Err("ParserError", <<"Invalid table name ", q.from>>)
    ELSE LET table == TableScan(q.from, schemas[q.from]) IN
         IF q.limit < 0 THEN Ok(table)
         ELSE Ok(Limit(q.limit, table, plan_schema(table)))

\* ExecutionContext::sql: the new heap and the handle, or the error
ExecutionContext_sql(h, q) ==
    LET plan == sql_to_rel(q, h[1].schemas) IN
    IF plan.tag # "Ok" THEN [heap |-> h, r |-> plan]
    ELSE LET s == snapshot(h, 1) IN
         [heap |-> s.heap, r |-> Ok([ctx |-> s.id, plan |-> plan.value])]

\* ExecutionContext::load
ExecutionContext_load(h, filename, schema) ==
    LET s == snapshot(h, 1) IN
    [heap |-> s.heap, r |-> Ok([ctx |-> s.id, plan |-> load_plan(filename, schema)])]

\* DF::select
DF_select(h, d, expr) ==
    LET s == snapshot(h, d.ctx) IN
    [heap |-> s.heap, r |-> Ok([ctx |-> s.id, plan |-> select_plan(d.plan, expr)])]

\* DF::filter
DF_filter(h, d, expr) ==
    LET s == snapshot(h, d.ctx) IN
    [heap |-> s.heap, r |-> Ok([ctx |-> s.id, plan |-> filter_plan(d.plan, expr)])]

\* From<ExecutionError> for DataFrameError
DataFrameError_from(e) ==
    [tag |-> "Err", err |-> [kind |-> "ExecutionError", cause |-> e.err]]

\* Value::to_string on the values the model uses
Value_to_string(v) ==
    CASE v.t = "UnsignedLong" ->
            (CASE v.v = 1 -> <<"1">> [] v.v = 2 -> <<"2">> [] v.v = 4 -> <<"4">>
               [] OTHER -> <<"?">>)
      [] v.t = "Double" ->
            (CASE v.v = 100 -> <<"1">> [] v.v = 200 -> <<"2">> [] v.v = 400 -> <<"4">>
               [] v.v = 150 -> <<"1.5">> [] v.v = 141 -> <<"1.41">>
               [] v.v = 122 -> <<"1.22">> [] OTHER -> <<"?">>)
      [] v.t = "String" -> v.v
      [] v.t = "Boolean" -> IF v.v THEN <<"true">> ELSE <<"false">>
      [] OTHER -> <<"?">>

\* Row::to_string: the texts of the values, in order
Row_to_string(row) == [k \in 1..Len(row.values) |-> Value_to_string(row.values[k])]

(***************************************************************************)
(* Inputs the specifications draw from                                     *)
(***************************************************************************)
PeoplePath == TablePath("people")
NopePath == TablePath("nope")
OutPath == <<"_out.csv">>
Paths == {PeoplePath, NopePath, OutPath}

RECURSIVE SeqsUpTo(_, _)
\* the sequences over S of length at most n
SeqsUpTo(S, n) ==
    IF n = 0 THEN {<<>>}
    ELSE LET shorter == SeqsUpTo(S, n - 1) IN
         shorter \cup {Append(q, x) : q \in {q \in shorter : Len(q) = n - 1}, x \in S}

Records == {Record(<<"1", "2">>), Record(<<"2", "1">>), Record(<<"x", "1">>), BadRecord}
Files == SeqsUpTo(Records, MaxRecords)

\* schemas of the two-column source: the second one has a text column, the
\* third one a column type create_tuple does not support
Schemas ==
    { Schema(<<Field("id", "UnsignedLong"), Field("n", "UnsignedLong")>>),
      Schema(<<Field("id", "String"), Field("n", "Double")>>),
      Schema(<<Field("id", "Boolean"), Field("n", "UnsignedLong")>>) }

Predicates ==
    { BinaryExpr(TupleValue(0), "Gt", Literal(UnsignedLong(1))),
      BinaryExpr(TupleValue(0), "Eq", TupleValue(1)),
      BinaryExpr(TupleValue(1), "NotEq", Literal(UnsignedLong(1))),
      BinaryExpr(TupleValue(0), "LtEq", Literal(String(<<"1">>))),
      BinaryExpr(ScalarFunction("SQRT", <<TupleValue(1)>>), "Lt", Literal(Double(141))),
      Literal(Boolean(TRUE)),
      Literal(Boolean(FALSE)),
      TupleValue(0) }

Projections ==
    { <<TupleValue(0)>>, <<TupleValue(1), TupleValue(0)>>,
      <<TupleValue(1), TupleValue(1), TupleValue(0)>>,
      <<TupleValue(2)>>,
      <<ScalarFunction("sqrt", <<TupleValue(1)>>), TupleValue(0)>>,
      <<ScalarFunction("foo", <<TupleValue(0)>>)>>,
      <<Literal(UnsignedLong(1))>> }

\* the file system with the given content of test/data/people.csv
FsWith(recs) ==
    [p \in Paths |-> IF p = PeoplePath THEN FileOf(recs) ELSE NoFile]

(***************************************************************************)
(* SpecOps: one operator tree, compiled and scanned by a consumer that     *)
(* calls next() on the iterator and keeps what it yields                   *)
(***************************************************************************)
OpsPlans ==
    LET sources == {load_plan(PeoplePath, s) : s \in Schemas} IN
    LET filters == {filter_plan(src, p) : src \in sources, p \in Predicates} IN
    sources
    \cup filters
    \cup {select_plan(src, e) : src \in sources, e \in Projections}
    \cup {Limit(n, src, plan_schema(src)) : src \in sources \cup filters, n \in 0..MaxLimit}

OpsInit ==
    /\ heap = <<ExecutionContext_new, ExecutionContext_new>>
    /\ \E plan \in OpsPlans : df = [ctx |-> 2, plan |-> plan]
    /\ \E recs \in Files : fs = FsWith(recs)
    /\ pc = "start"
    /\ rel = NoRel
    /\ it = NoIt
    /\ out = <<>>
    /\ res = None
    /\ call = NoCall

\* ctx.create_execution_plan(&plan)
OpsCompile ==
    /\ pc = "start"
    /\ LET r == create_execution_plan(df.plan, fs) IN
       /\ res' = r
       /\ rel' = IF r.tag = "Ok" THEN r.value ELSE NoRel
       /\ pc' = CASE r.tag = "Ok" -> "compiled"
                  [] r.tag = "Err" -> "failed"
                  [] OTHER -> "panicked"
    /\ UNCHANGED <<heap, df, fs, it, out, call>>

\* rel.scan(&ctx)
OpsScan ==
    /\ pc = "compiled"
    /\ it' = scan(rel)
    /\ pc' = "scan"
    /\ UNCHANGED <<heap, df, fs, rel, out, res, call>>

\* one next() on the iterator; a consumer may go on calling next() after the
\* iterator has returned None
OpsPull ==
    /\ pc = "scan" \/ (pc = "ended" /\ it.calls < MaxPulls)
    /\ LET n == next(rel, it, fs) IN
       /\ it' = n.it
       /\ res' = n.item
       /\ out' = IF pc = "scan" /\ n.item.tag \in {"Ok", "Err"} THEN Append(out, n.item) ELSE out
       /\ pc' = CASE n.item.tag = "Panic" -> "panicked"
                  [] n.item.tag = "None" -> "ended"
                  [] OTHER -> pc
    /\ UNCHANGED <<heap, df, fs, rel, call>>

OpsNext == OpsCompile \/ OpsScan \/ OpsPull

SpecOps == OpsInit /\ [][OpsNext]_vars

(***************************************************************************)
(* SpecEval: one call of ExecutionContext::evaluate                        *)
(***************************************************************************)
FunctionNames == {"sqrt", "SQRT", "st_point", "ST_Point", "st_astext", "foo", "Bar"}

EvalRows ==
    { Row(<<UnsignedLong(4), String(<<"x">>)>>),
      Row(<<Double(150), Double(200)>>),
      Row(<<String(<<"1">>), UnsignedLong(1)>>) }

EvalArgs1 ==
    { <<>>, <<TupleValue(0)>>, <<TupleValue(0), TupleValue(1)>>,
      <<Literal(String(<<"x">>))>>, <<TupleValue(2)>>,
      <<ScalarFunction("st_point", <<TupleValue(0), TupleValue(1)>>)>>,
      <<ScalarFunction("nope", <<TupleValue(0)>>)>> }

EvalExprs ==
    {ScalarFunction(name, args) : name \in FunctionNames, args \in EvalArgs1}
    \cup Predicates

EvalCalls == {[tuple |-> t, tt |-> Schema(<<>>), rex |-> e] : t \in EvalRows, e \in EvalExprs}

EvalInit ==
    /\ heap = <<ExecutionContext_new>>
    /\ df = NoDF
    /\ fs = FsWith(<<>>)
    /\ pc = "start"
    /\ rel = NoRel
    /\ it = NoIt
    /\ out = <<>>
    /\ res = None
    /\ call \in EvalCalls

\* ctx.evaluate(&tuple, &tt, &rex)
Evaluate ==
    /\ pc = "start"
    /\ res' = evaluate(call.tuple, call.tt, call.rex)
    /\ pc' = "returned"
    /\ UNCHANGED <<heap, df, fs, rel, it, out, call>>

EvalNext == Evaluate

SpecEval == EvalInit /\ [][EvalNext]_vars

(***************************************************************************)
(* Properties of the operators (SpecOps)                                   *)
(***************************************************************************)
Min(a, b) == IF a <= b THEN a ELSE b

RECURSIVE CollectFrom(_, _, _)
CollectFrom(r, i, f) ==
    LET n == next(r, i, f) IN
    IF n.item.tag \in {"None", "Panic"} THEN <<>>
    ELSE <<n.item>> \o CollectFrom(r, n.it, f)

\* the items r.scan(ctx) yields, up to its end
Collect(r, f) == CollectFrom(r, scan(r), f)

\* the source records, when none is rejected by the reader and each has one
\* field per column that parses as the column's type
RecordsMatch(recs, schema) ==
    \A k \in 1..Len(recs) :
        /\ ~recs[k].bad
        /\ create_tuple(schema, recs[k].fields).tag = "Ok"

\* C1: when a FilterRelation's scan has ended, what it yielded is the
\* subsequence of its input's items, in input order, made of every error
\* item and every Ok row on which the predicate evaluates to Boolean(true)
C1_FilterSubsequence ==
    (pc = "ended" /\ rel.kind = "Filter") =>
        LET Keep(t) == \/ t.tag = "Err"
                       \/ evaluate(t.value, rel.schema, df.plan.expr) = Ok(Boolean(TRUE))
        IN out = SelectSeq(Collect(rel.input, fs), Keep)

C1_Witness ==
    /\ pc = "ended"
    /\ rel.kind = "Filter"
    /\ \E k \in 1..Len(out) : out[k].tag = "Err"
    /\ \E k \in 1..Len(out) : out[k].tag = "Ok"
    /\ Len(out) < Len(Collect(rel.input, fs))

\* C2: when a LimitRelation's scan has ended, what it yielded is the first
\* min(n, m) of the m items of its input, in order, n being the plan's limit
C2_LimitPrefix ==
    (pc = "ended" /\ rel.kind = "Limit") =>
        LET input == Collect(rel.input, fs) IN
        /\ Len(out) = Min(df.plan.limit, Len(input))
        /\ out = SubSeq(input, 1, Min(df.plan.limit, Len(input)))
        /\ (df.plan.limit = 0 => out = <<>>)

C2_Witness ==
    /\ pc = "ended"
    /\ rel.kind = "Limit"
    /\ df.plan.limit > 0
    /\ Len(out) = df.plan.limit
    /\ Len(Collect(rel.input, fs)) > df.plan.limit

\* every projection expression is a column reference within the input schema
ColumnRefsInRange(r) ==
    \A k \in 1..Len(r.expr) :
        r.expr[k].e = "TupleValue" /\ r.expr[k].i < Len(r.input.schema.columns)

\* C3: when the scan of a ProjectRelation over in-range column references
\* has ended, it has yielded one item per input item: the input item itself
\* when that is an error, and otherwise the row of the referenced values
C3_ProjectPositional ==
    (pc = "ended" /\ rel.kind = "Project" /\ ColumnRefsInRange(rel)) =>
        LET input == Collect(rel.input, fs)
            idxs == df.plan.expr
        IN /\ Len(out) = Len(input)
           /\ \A k \in 1..Len(input) :
                 out[k] = IF input[k].tag = "Err" THEN input[k]
                          ELSE Ok(Row([j \in 1..Len(idxs) |->
                                          input[k].value.values[idxs[j].i + 1]]))

C3_Witness ==
    /\ pc = "ended"
    /\ rel.kind = "Project"
    /\ ColumnRefsInRange(rel)
    /\ Len(rel.expr) = 3
    /\ \E k \in 1..Len(out) : out[k].tag = "Err"
    /\ \E k \in 1..Len(out) : out[k].tag = "Ok" /\ out[k].value.values[1] # out[k].value.values[3]

\* C4: when the scan of a CsvRelation over m records matching the schema
\* has ended, it has yielded m rows: the k-th is the k-th record of the source
C4_ScanEmitsEveryRecord ==
    LET recs == fs[PeoplePath].recs IN
    (pc = "ended" /\ rel.kind = "Csv" /\ RecordsMatch(recs, rel.schema)) =>
        /\ Len(out) = Len(recs)
        /\ \A k \in 1..Len(recs) : out[k] = create_tuple(rel.schema, recs[k].fields)

\* C9: the input of a LimitRelation is never pulled more than n times, n
\* being the plan's limit, and once n items have been yielded a next() on the
\* LimitRelation returns None and leaves the input's iterator as it was
C9_LimitPullsAtMostN ==
    [][(rel'.kind = "Limit" /\ pc' \in {"scan", "ended"}) =>
          /\ it'.input.calls <= df'.plan.limit
          /\ (pc \in {"scan", "ended"} /\ Len(out) >= df.plan.limit) =>
                (res'.tag = "None" /\ it'.input = it.input)]_vars

C9_Witness ==
    /\ pc = "ended"
    /\ rel.kind = "Limit"
    /\ rel.input.kind = "Csv"
    /\ df.plan.limit > 0
    /\ it.input.calls = df.plan.limit
    /\ it.calls > df.plan.limit + 1
    /\ it.input.pos < Len(fs[PeoplePath].recs)

\* a column type CsvRelation::create_tuple has no conversion for
Unsupported(schema) ==
    \E k \in 1..Len(schema.columns) :
        schema.columns[k].data_type \notin {"UnsignedLong", "Double", "String"}

\* C10: create_execution_plan returns no operator for a scan whose schema
\* declares an unsupported column type
C10_UnsupportedTypeRejectedAtCompile ==
    (df.plan.kind \in {"CsvFile", "TableScan"} /\ Unsupported(df.plan.schema) /\ pc # "start") =>
        (rel = NoRel /\ pc \in {"failed", "panicked"})

(***************************************************************************)
(* Properties of evaluate (SpecEval)                                       *)
(***************************************************************************)
\* the call is a function call whose arguments evaluate and whose name ...
ArgsEvaluate(c) ==
    c.rex.e = "ScalarFunction" /\ EvalArgs(c.tuple, c.tt, c.rex.args, 1).tag = "Ok"

\* ... the resolver does not know
ResolutionFails(c) == ArgsEvaluate(c) /\ load_function_impl(c.rex.name).tag = "Err"

\* ... the resolver knows, and whose execute fails
InvocationFails(c) ==
    /\ ArgsEvaluate(c)
    /\ load_function_impl(c.rex.name).tag = "Ok"
    /\ execute(load_function_impl(c.rex.name).value,
               EvalArgs(c.tuple, c.tt, c.rex.args, 1).value).tag = "Err"

\* C7: a call of an unknown function returns an error whose kind no failed
\* invocation of a known function returns
C7_ResolutionKindDistinct ==
    (pc = "returned" /\ ResolutionFails(call)) =>
        /\ res.tag = "Err"
        /\ \A c \in EvalCalls :
              InvocationFails(c) =>
                  evaluate(c.tuple, c.tt, c.rex).err.kind # res.err.kind

(***************************************************************************)
(* SpecWrite: a handle is obtained from load or sql, select and filter     *)
(* derive handles from it, and DF::write runs the plan of the last one.    *)
(* write is followed step by step: compile, create the sink, one next()    *)
(* per step                                                                *)
(***************************************************************************)
\* the context the tests build (create_context), with a second table whose
\* file does not exist
TestHeap ==
    LET people == Schema(<<Field("id", "UnsignedLong"), Field("n", "UnsignedLong")>>) IN
    define_schema(define_schema(<<ExecutionContext_new>>, "people", people), "nope", people)

WriteFiles ==
    { <<>>,
      <<Record(<<"1", "2">>), Record(<<"2", "1">>)>>,
      <<Record(<<"1", "2">>), Record(<<"2", "1">>), Record(<<"1", "2">>)>>,
      <<Record(<<"1", "2">>), BadRecord, Record(<<"2", "1">>)>>,
      <<Record(<<"1", "2">>), Record(<<"x", "1">>)>> }

\* a sink left by an earlier run
OldSink == FileOf(<< <<"old">> >>)

Queries ==
    { [parses |-> TRUE, from |-> "people", limit |-> -1],
      [parses |-> TRUE, from |-> "people", limit |-> 1],
      [parses |-> TRUE, from |-> "nope", limit |-> -1],
      [parses |-> TRUE, from |-> "cities", limit |-> -1],
      [parses |-> TRUE, from |-> "", limit |-> -1],
      [parses |-> FALSE, from |-> "", limit |-> -1] }

WriteSelects ==
    { <<TupleValue(0)>>, <<TupleValue(1), TupleValue(0)>>,
      <<ScalarFunction("sqrt", <<TupleValue(1)>>)>>,
      <<Literal(UnsignedLong(1))>> }

WriteFilters ==
    { BinaryExpr(TupleValue(0), "Gt", Literal(UnsignedLong(1))),
      BinaryExpr(TupleValue(0), "Eq", TupleValue(1)),
      Literal(Boolean(TRUE)) }

RECURSIVE Depth(_)
\* the number of select and filter calls that built the plan
Depth(plan) ==
    IF plan.kind \in {"Selection", "Projection"} THEN 1 + Depth(plan.input) ELSE 0

WriteInit ==
    /\ heap = TestHeap
    /\ df = NoDF
    /\ \E recs \in WriteFiles, sink \in {NoFile, OldSink} :
          fs = [FsWith(recs) EXCEPT ![OutPath] = sink]
    /\ pc = "idle"
    /\ rel = NoRel
    /\ it = NoIt
    /\ out = <<>>
    /\ res = None
    /\ call = NoCall

\* what a call that returns Result<Box<DataFrame>, _> leaves: the handle, or
\* the error
Returned(r) ==
    /\ heap' = r.heap
    /\ IF r.r.tag = "Ok" THEN df' = r.r.value /\ res' = res
       ELSE df' = df /\ res' = r.r

\* ctx.load(filename, &schema)
WLoad ==
    /\ pc = "idle" /\ df = NoDF
    /\ \E filename \in {PeoplePath, NopePath}, schema \in Schemas :
          Returned(ExecutionContext_load(heap, filename, schema))
    /\ UNCHANGED <<fs, pc, rel, it, out, call>>

\* ctx.sql(q)
WSql ==
    /\ pc = "idle" /\ df = NoDF /\ res = None
    /\ \E q \in Queries : Returned(ExecutionContext_sql(heap, q))
    /\ UNCHANGED <<fs, pc, rel, it, out, call>>

\* df.select(expr)
WSelect ==
    /\ pc = "idle" /\ df # NoDF /\ Depth(df.plan) < MaxDepth
    /\ \E expr \in WriteSelects : Returned(DF_select(heap, df, expr))
    /\ UNCHANGED <<fs, pc, rel, it, out, call>>

\* df.filter(expr)
WFilter ==
    /\ pc = "idle" /\ df # NoDF /\ Depth(df.plan) < MaxDepth
    /\ \E expr \in WriteFilters : Returned(DF_filter(heap, df, expr))
    /\ UNCHANGED <<fs, pc, rel, it, out, call>>

\* write_compile with the sink created before the plan is compiled
write_compile_SinkFirst(d, f) ==
    [fs |-> FileCreate(f, OutPath), r |-> create_execution_plan(d.plan, f)]

\* DF::write up to the `?` on create_execution_plan: the file system and the
\* result of the compilation
write_compile(d, f) == [fs |-> f, r |-> create_execution_plan(d.plan, f)]

\* df.write(OutPath): let execution_plan = self.ctx.create_execution_plan(..)?
WriteCompile ==
    /\ pc = "idle" /\ df # NoDF
    /\ LET w == write_compile(df, fs) IN
       /\ fs' = w.fs
       /\ rel' = IF w.r.tag = "Ok" THEN w.r.value ELSE NoRel
       /\ res' = CASE w.r.tag = "Ok" -> res
                   [] w.r.tag = "Err" -> DataFrameError_from(w.r)
                   [] OTHER -> PanicR
       /\ pc' = CASE w.r.tag = "Ok" -> "compiled"
                  [] w.r.tag = "Err" -> "returned"
                  [] OTHER -> "panicked"
    /\ UNCHANGED <<heap, df, it, out, call>>

\* let mut file = File::create(filename)?; let it = execution_plan.scan(..)
WriteCreate ==
    /\ pc = "compiled"
    /\ fs' = FileCreate(fs, OutPath)
    /\ it' = scan(rel)
    /\ pc' = "writing"
    /\ UNCHANGED <<heap, df, rel, out, res, call>>

\* one round of it.for_each: a row is written as a line, an error panics,
\* and at the end of the rows write returns Ok(())
WritePull ==
    /\ pc = "writing"
    /\ LET n == next(rel, it, fs) IN
       /\ it' = n.it
       /\ out' = IF n.item.tag = "Ok" THEN Append(out, n.item) ELSE out
       /\ fs' = IF n.item.tag = "Ok"
                THEN [fs EXCEPT ![OutPath].recs = Append(@, Row_to_string(n.item.value))]
                ELSE fs
       /\ res' = CASE n.item.tag = "None" -> Ok(<<>>)
                   [] n.item.tag = "Ok" -> res
                   [] OTHER -> PanicR
       /\ pc' = CASE n.item.tag = "None" -> "returned"
                  [] n.item.tag = "Ok" -> pc
                  [] OTHER -> "panicked"
    /\ UNCHANGED <<heap, df, rel, call>>

WriteNext == WLoad \/ WSql \/ WSelect \/ WFilter \/ WriteCompile \/ WriteCreate \/ WritePull

SpecWrite == WriteInit /\ [][WriteNext]_vars

(***************************************************************************)
(* SpecCtx: the caller changes its context between and after the calls     *)
(* that obtain and derive handles                                          *)
(***************************************************************************)
CtxSchemas ==
    { Schema(<<Field("id", "UnsignedLong")>>),
      Schema(<<Field("id", "UnsignedLong"), Field("name", "String")>>) }

CtxInit ==
    /\ heap = <<ExecutionContext_new>>
    /\ df = NoDF
    /\ fs = FsWith(<<>>)
    /\ pc = "idle"
    /\ rel = NoRel
    /\ it = NoIt
    /\ out = <<>>
    /\ res = None
    /\ call = NoCall

\* ctx.define_schema(name, &schema)
DefineSchema ==
    /\ \E schema \in CtxSchemas : heap' = define_schema(heap, "people", schema)
    /\ UNCHANGED <<df, fs, pc, rel, it, out, res, call>>

\* ctx.define_function(&func)
DefineFunction ==
    /\ \E func \in {"st_point"} : heap' = define_function(heap, func)
    /\ UNCHANGED <<df, fs, pc, rel, it, out, res, call>>

\* ctx.register_table(name, schema)
RegisterTable ==
    /\ heap' = register_table(heap, "cities", Schema(<<Field("city", "String")>>))
    /\ UNCHANGED <<df, fs, pc, rel, it, out, res, call>>

CtxLoad ==
    /\ Len(heap) <= MaxHandles
    /\ \E schema \in CtxSchemas : Returned(ExecutionContext_load(heap, PeoplePath, schema))
    /\ UNCHANGED <<fs, pc, rel, it, out, call>>

CtxSql ==
    /\ Len(heap) <= MaxHandles
    /\ \E q \in Queries : Returned(ExecutionContext_sql(heap, q))
    /\ UNCHANGED <<fs, pc, rel, it, out, call>>

CtxSelect ==
    /\ Len(heap) <= MaxHandles /\ df # NoDF
    /\ Returned(DF_select(heap, df, <<TupleValue(0)>>))
    /\ UNCHANGED <<fs, pc, rel, it, out, call>>

CtxFilter ==
    /\ Len(heap) <= MaxHandles /\ df # NoDF
    /\ Returned(DF_filter(heap, df, Literal(Boolean(TRUE))))
    /\ UNCHANGED <<fs, pc, rel, it, out, call>>

CtxNext ==
    \/ DefineSchema \/ DefineFunction \/ RegisterTable
    \/ CtxLoad \/ CtxSql \/ CtxSelect \/ CtxFilter

SpecCtx == CtxInit /\ [][CtxNext]_vars

(***************************************************************************)
(* Properties of DF::write (SpecWrite)                                     *)
(***************************************************************************)
RECURSIVE SubOps(_)
\* the operators of a tree
SubOps(r) == IF r.kind = "Csv" THEN {r} ELSE {r} \cup SubOps(r.input)

RECURSIVE Source(_)
\* the CsvRelation at the bottom of a tree
Source(r) == IF r.kind = "Csv" THEN r ELSE Source(r.input)

RECURSIVE RowWidth(_)
\* the number of values in the rows an operator yields
RowWidth(r) ==
    CASE r.kind = "Csv" -> Len(r.schema.columns)
      [] r.kind = "Project" -> Len(r.expr)
      [] OTHER -> RowWidth(r.input)

RECURSIVE ExprInRange(_, _)
\* every column reference of the expression is below w
ExprInRange(e, w) ==
    CASE e.e = "TupleValue" -> e.i < w
      [] e.e = "BinaryExpr" -> ExprInRange(e.left, w) /\ ExprInRange(e.right, w)
      [] e.e = "ScalarFunction" -> \A k \in 1..Len(e.args) : ExprInRange(e.args[k], w)
      [] OTHER -> TRUE

RECURSIVE IndexesInRange(_)
\* every column reference of every operator is within the rows it is applied to
IndexesInRange(r) ==
    CASE r.kind = "Csv" -> TRUE
      [] r.kind = "Filter" ->
            ExprInRange(r.expr, RowWidth(r.input)) /\ IndexesInRange(r.input)
      [] r.kind = "Project" ->
            /\ \A k \in 1..Len(r.expr) : ExprInRange(r.expr[k], RowWidth(r.input))
            /\ IndexesInRange(r.input)
      [] OTHER -> IndexesInRange(r.input)

\* C5: in a tree compiled from a plan built with load, sql, select and
\* filter, over records matching the scan schema and with column indexes in
\* range, every row an operator yields has one value per column of that
\* operator's schema()
C5_RowWidthEqualsSchemaWidth ==
    (/\ pc \in {"writing", "returned"} /\ rel # NoRel
     /\ RecordsMatch(fs[Source(rel).file].recs, Source(rel).schema)
     /\ IndexesInRange(rel)) =>
        \A op \in SubOps(rel) :
            LET items == Collect(op, fs) IN
            \A k \in 1..Len(items) :
                items[k].tag = "Ok" =>
                    Len(items[k].value.values) = Len(op.schema.columns)

\* the result of compiling the handle's plan
CompileResult == create_execution_plan(df.plan, fs)

\* the sink has been neither created nor truncated
SinkUntouched == fs[OutPath] \in {NoFile, OldSink}

\* C6 as stated: when compiling a node of the plan fails, write returns the
\* error, before the sink is created or truncated and before a row is pulled
C6_CompileFailureReturned ==
    (pc # "idle" /\ df # NoDF /\ CompileResult.tag # "Ok") =>
        /\ pc = "returned"
        /\ res.tag = "Err"
        /\ rel = NoRel /\ it = NoIt /\ out = <<>>
        /\ SinkUntouched

\* C6: when compiling a node of the plan fails, at any depth, no operator is
\* built, the sink is neither created nor truncated and no row is pulled;
\* when the failure is an error (a file that cannot be opened), write returns
\* that error, and when it is a panic (EmptyRelation, a projection expression
\* that is neither a column reference nor a function call, a column reference
\* outside the input schema), write panics
C6_CompileFailureBeforeExecution ==
    (pc # "idle" /\ df # NoDF /\ CompileResult.tag # "Ok") =>
        /\ rel = NoRel /\ it = NoIt /\ out = <<>>
        /\ SinkUntouched
        /\ CompileResult.tag = "Err" =>
              (pc = "returned" /\ res = DataFrameError_from(CompileResult))
        /\ CompileResult.tag = "Panic" => (pc = "panicked" /\ res = PanicR)

C6_Witness ==
    /\ pc = "returned"
    /\ res.tag = "Err"
    /\ res.err.cause.kind = "IoError"
    /\ Depth(df.plan) = 2
    /\ fs[OutPath] = OldSink

(***************************************************************************)
(* Properties of the context (SpecCtx)                                     *)
(***************************************************************************)
\* the boxes handles refer to: every box but the caller's, and the box of
\* the current handle
HandleBoxes == (2..Len(heap)) \cup ({df.ctx} \ {0})

\* C8: no call changes the schema and function tables of a handle that
\* exists, and a handle derived with select or filter has the tables of the
\* handle it is derived from
C8_SnapshotUnchanged ==
    [][/\ \A k \in HandleBoxes : heap'[k] = heap[k]
       /\ (df # NoDF /\ df'.plan.kind \in {"Projection", "Selection"} /\ df' # df) =>
             heap'[df'.ctx] = heap[df.ctx]]_vars

C8_Witness ==
    /\ df.plan.kind \in {"Projection", "Selection"}
    /\ df.plan.input.kind \in {"CsvFile", "TableScan"}
    /\ "people" \in DOMAIN heap[df.ctx].schemas
    /\ "people" \in DOMAIN heap[1].schemas
    /\ heap[1].schemas["people"] # heap[df.ctx].schemas["people"]
    /\ DOMAIN heap[1].functions # DOMAIN heap[df.ctx].functions
    /\ heap[df.ctx - 1] = heap[df.ctx]

====
